---- MODULE Spec2Model ----
(***************************************************************************)
(* Model of mod_h2's h2_stream.c: one HTTP/2 stream that reassembles its   *)
(* request (pseudo headers, headers, body data, end of stream) into        *)
(* fixed-capacity buckets and hands them to the session's input queue.     *)
(*                                                                         *)
(* Bytes are one-character strings, a bucket's content is a sequence of    *)
(* bytes.  The bucket, the bucket queue and the request serializer live in *)
(* other files of the module (h2_bucket.c, h2_bucket_queue.c, h2_frame.c); *)
(* they are modelled from their documented contract.                       *)
(***************************************************************************)
EXTENDS Integers, Sequences, FiniteSets, TLC

(* ------------------------------------------------------------------ *)
(* Bounds                                                             *)
(* ------------------------------------------------------------------ *)

\* capacity of one bucket; stands for the 16 * 1024 of h2_stream_check_work
SegCap == 22

\* number of API calls made on the stream in one run
MaxCalls == 4

\* number of loop iterations h2_stream_add_data may run in one call
MaxIter == 3

(* ------------------------------------------------------------------ *)
(* Values                                                             *)
(* ------------------------------------------------------------------ *)

APR_SUCCESS == "APR_SUCCESS"
APR_EGENERAL == "APR_EGENERAL"
APR_ENOMEM == "APR_ENOMEM"
APR_ENAMETOOLONG == "APR_ENAMETOOLONG"
\* a status of the bucket queue other than APR_SUCCESS
QueueFailure == "QueueFailure"
\* the status a serializer that checks its bucket argument returns for NULL
APR_EINVAL == "APR_EINVAL"

H2_STREAM_ST_IDLE == "IDLE"
H2_STREAM_ST_CLOSED_INPUT == "CLOSED_INPUT"
H2_STREAM_ST_CLOSED_OUTPUT == "CLOSED_OUTPUT"
H2_STREAM_ST_CLOSED == "CLOSED"

States ==
    {H2_STREAM_ST_IDLE, H2_STREAM_ST_CLOSED_INPUT,
     H2_STREAM_ST_CLOSED_OUTPUT, H2_STREAM_ST_CLOSED}

H2_HEADER_METHOD == <<":", "m", "e", "t", "h", "o", "d">>
H2_HEADER_METHOD_LEN == 7
H2_HEADER_SCHEME == <<":", "s", "c", "h", "e", "m", "e">>
H2_HEADER_SCHEME_LEN == 7
H2_HEADER_PATH == <<":", "p", "a", "t", "h">>
H2_HEADER_PATH_LEN == 5
H2_HEADER_AUTH == <<":", "a", "u", "t", "h", "o", "r", "i", "t", "y">>
H2_HEADER_AUTH_LEN == 10

\* a char* that is NULL; apr_pstrndup of a non-empty value is never empty
NULLSTR == <<>>

CRLF == <<"\r", "\n">>

\* the id given to h2_stream_create
StreamId == 1

\* a h2_bucket* that is NULL, and the bucket at address a holding the bytes d
NULL == [alloc |-> FALSE, addr |-> 0, data |-> <<>>]
Bucket(a, d) == [alloc |-> TRUE, addr |-> a, data |-> d]

\* outcomes of handing a NULL bucket to code that expects a bucket: the
\* callee dereferences it and the process dies, or the callee checks for it
NullOutcomes == {"trap", "tolerated"}

Min(a, b) == IF a < b THEN a ELSE b

Repeat(c, n) == [i \in 1..n |-> c]

(* ------------------------------------------------------------------ *)
(* Inputs                                                             *)
(* ------------------------------------------------------------------ *)

PseudoHeaders ==
    { <<H2_HEADER_METHOD, <<"G">>>>,
      <<H2_HEADER_METHOD, <<"P">>>>,
      <<H2_HEADER_PATH, <<"/">>>>,
      <<H2_HEADER_AUTH, <<"h">>>>,
      <<H2_HEADER_SCHEME, <<"s">>>>,
      <<<<":", "x">>, <<"1">>>>,
      <<H2_HEADER_PATH, <<>>>> }

RegularHeaders ==
    { <<<<"a">>, <<"b">>>>,
      <<<<"c">>, Repeat("w", SegCap - 8)>>,
      <<<<"n">>, Repeat("v", SegCap)>>,
      <<<<>>, <<"b">>>> }

HeaderInputs == PseudoHeaders \cup RegularHeaders

DataInputs ==
    { <<"x">>,
      Repeat("d", SegCap - 1),
      Repeat("e", SegCap + 1) }

(* ------------------------------------------------------------------ *)
(* State                                                              *)
(* ------------------------------------------------------------------ *)

VARIABLES
    state,           \* stream->state
    method,          \* stream->method
    scheme,          \* stream->scheme
    path,            \* stream->path
    authority,       \* stream->authority
    eoh,             \* stream->eoh
    aborted,         \* stream->aborted
    work,            \* stream->work
    state_change_cb, \* stream->state_change_cb is set
    data_in,         \* stream->session->data_in, the bucket queue
    pc,              \* "idle" between calls, "add_data" inside its loop
    len,             \* the bytes h2_stream_add_data has still to append
    iter,            \* loop iterations of the running h2_stream_add_data
    fault,           \* the process died on a NULL bucket
    calls,           \* number of API calls made
    lastOp,          \* the call made last
    lastArg,         \* its <<name, value>> or <<data>> argument
    lastStatus,      \* the status it returned ("running" until it returns)
    cbLog,           \* invocations of the observer: <<old state, new state>>
    closeCalls,      \* number of h2_stream_close_input calls
    ciChanges,       \* changes of stream->state those calls made
    ehCalls,         \* number of h2_stream_end_headers calls
    adCalls,         \* number of h2_stream_add_data calls
    dataIn,          \* the bytes h2_stream_add_data consumed, in call order
    hdrsIn,          \* the regular headers add_header accepted, in order
    qfail,           \* some operation of the bucket queue failed
    replaced         \* a call changed a pseudo-header field that was set

vars ==
    <<state, method, scheme, path, authority, eoh, aborted, work,
      state_change_cb, data_in, pc, len, iter, fault, calls, lastOp, lastArg,
      lastStatus, cbLog, closeCalls, ciChanges, ehCalls, adCalls, dataIn,
      hdrsIn, qfail, replaced>>

Init ==
    /\ state = H2_STREAM_ST_IDLE
    /\ method = NULLSTR
    /\ scheme = NULLSTR
    /\ path = NULLSTR
    /\ authority = NULLSTR
    /\ eoh = FALSE
    /\ aborted = FALSE
    /\ work = NULL
    /\ state_change_cb = FALSE
    /\ data_in = <<>>
    /\ pc = "idle"
    /\ len = <<>>
    /\ iter = 0
    /\ fault = FALSE
    /\ calls = 0
    /\ lastOp = "create"
    /\ lastArg = <<>>
    /\ lastStatus = APR_SUCCESS
    /\ cbLog = <<>>
    /\ closeCalls = 0
    /\ ciChanges = 0
    /\ ehCalls = 0
    /\ adCalls = 0
    /\ dataIn = <<>>
    /\ hdrsIn = <<>>
    /\ qfail = FALSE
    /\ replaced = FALSE

\* a call may start: no call is running, the process lives, calls remain
CanCall == pc = "idle" /\ ~fault /\ calls < MaxCalls

\* the address apr_palloc returns: one no bucket of the stream has yet
FreshAddr ==
    LET used == {work.addr} \cup {data_in[i].bucket.addr : i \in DOMAIN data_in}
    IN 1 + CHOOSE m \in used : \A a \in used : a <= m

(* ------------------------------------------------------------------ *)
(* Bucket (h2_bucket.c)                                               *)
(* ------------------------------------------------------------------ *)

h2_bucket_alloc(ok) == IF ok THEN Bucket(FreshAddr, <<>>) ELSE NULL

h2_bucket_available(b) == SegCap - Len(b.data)

h2_bucket_has_free(b, n) == h2_bucket_available(b) >= n

\* the number of bytes h2_bucket_append writes
AppendCount(b, d) == Min(Len(d), h2_bucket_available(b))

h2_bucket_append(b, d) ==
    [b EXCEPT !.data = b.data \o SubSeq(d, 1, AppendCount(b, d))]

h2_bucket_cat(b, s) == [b EXCEPT !.data = b.data \o s]

(* ------------------------------------------------------------------ *)
(* Request serializer (h2_frame.c)                                    *)
(* ------------------------------------------------------------------ *)

RequestLine(m, p) == m \o <<" ">> \o p \o CRLF

HeaderLine(n, v) == n \o <<":", " ">> \o v \o CRLF

HostName == <<"H", "o", "s", "t">>

\* write line into b when it fits, else report APR_ENAMETOOLONG
WriteLine(b, line) ==
    IF h2_bucket_has_free(b, Len(line))
    THEN [work |-> [b EXCEPT !.data = b.data \o line],
          status |-> APR_SUCCESS]
    ELSE [work |-> b, status |-> APR_ENAMETOOLONG]

h2_frame_req_add_start(b, m, p) == WriteLine(b, RequestLine(m, p))

h2_frame_req_add_header(b, n, v) == WriteLine(b, HeaderLine(n, v))

(* ------------------------------------------------------------------ *)
(* Bucket queue (h2_bucket_queue.c)                                   *)
(* ------------------------------------------------------------------ *)

DataItem(b, id) == [stream_id |-> id, eos |-> FALSE, bucket |-> b]
EosItem(id) == [stream_id |-> id, eos |-> TRUE, bucket |-> NULL]

h2_bucket_queue_append(q, b, id, ok) ==
    IF ok THEN [q |-> Append(q, DataItem(b, id)), status |-> APR_SUCCESS]
    ELSE [q |-> q, status |-> QueueFailure]

h2_bucket_queue_append_eos(q, id, ok) ==
    IF ok THEN [q |-> Append(q, EosItem(id)), status |-> APR_SUCCESS]
    ELSE [q |-> q, status |-> QueueFailure]

(* ------------------------------------------------------------------ *)
(* h2_stream.c                                                        *)
(* ------------------------------------------------------------------ *)

\* set_state reading the old state after the assignment
set_state_stale(old, new, cb, log) ==
    IF old # new
    THEN [state |-> new,
          cbLog |-> IF cb THEN Append(log, <<new, new>>) ELSE log]
    ELSE [state |-> old, cbLog |-> log]

\* the new state and the observer's log
set_state(old, new, cb, log) ==
    IF old # new
    THEN [state |-> new,
          cbLog |-> IF cb THEN Append(log, <<old, new>>) ELSE log]
    ELSE [state |-> old, cbLog |-> log]

h2_stream_check_work(w, allocOk) ==
    IF ~w.alloc
    THEN LET b == h2_bucket_alloc(allocOk)
         IN IF ~b.alloc
            THEN [work |-> b, status |-> APR_ENOMEM]
            ELSE [work |-> b, status |-> APR_SUCCESS]
    ELSE [work |-> w, status |-> APR_SUCCESS]

\* h2_stream_push without the assignment stream->work = NULL
h2_stream_push_keep(w, q, qok, ub) ==
    IF ~w.alloc /\ ub = "trap"
    THEN [work |-> w, q |-> q, status |-> APR_SUCCESS, fault |-> TRUE]
    ELSE LET r == h2_bucket_queue_append(q, w, StreamId, qok)
         IN [work |-> w, q |-> r.q, status |-> r.status, fault |-> FALSE]

\* stream->work goes to the queue as it is, NULL included
h2_stream_push(w, q, qok, ub) ==
    IF ~w.alloc /\ ub = "trap"
    THEN [work |-> w, q |-> q, status |-> APR_SUCCESS, fault |-> TRUE]
    ELSE LET r == h2_bucket_queue_append(q, w, StreamId, qok)
         IN [work |-> IF r.status = APR_SUCCESS THEN NULL ELSE w,
             q |-> r.q, status |-> r.status, fault |-> FALSE]

h2_stream_end_headers(w, q, e, allocOk, qok1, qok2, ubCat, ubPush) ==
    LET c == h2_stream_check_work(w, allocOk) IN
    IF c.status # APR_SUCCESS
    THEN [work |-> c.work, q |-> q, eoh |-> e, status |-> c.status,
          fault |-> FALSE]
    ELSE
    LET p1 == IF ~h2_bucket_has_free(c.work, 2)
              THEN h2_stream_push(c.work, q, qok1, ubPush)
              ELSE [work |-> c.work, q |-> q, status |-> APR_SUCCESS,
                    fault |-> FALSE]
    IN
    IF p1.status # APR_SUCCESS
    THEN [work |-> p1.work, q |-> p1.q, eoh |-> TRUE, status |-> p1.status,
          fault |-> FALSE]
    ELSE IF ~p1.work.alloc /\ ubCat = "trap"
    THEN [work |-> p1.work, q |-> p1.q, eoh |-> TRUE, status |-> APR_SUCCESS,
          fault |-> TRUE]
    ELSE
    LET w2 == IF p1.work.alloc THEN h2_bucket_cat(p1.work, CRLF) ELSE p1.work
        p2 == h2_stream_push(w2, p1.q, qok2, ubPush)
    IN [work |-> p2.work, q |-> p2.q, eoh |-> TRUE, status |-> p2.status,
        fault |-> p2.fault]

\* the switch without its case H2_STREAM_ST_CLOSED
close_input_switch_reopen(st, cb, log) ==
    CASE st = H2_STREAM_ST_CLOSED_INPUT -> [state |-> st, cbLog |-> log]
      [] st = H2_STREAM_ST_CLOSED_OUTPUT ->
            set_state(st, H2_STREAM_ST_CLOSED, cb, log)
      [] OTHER -> set_state(st, H2_STREAM_ST_CLOSED_INPUT, cb, log)

\* lines 144-156: the switch on stream->state
close_input_switch(st, cb, log) ==
    CASE st = H2_STREAM_ST_CLOSED_INPUT -> [state |-> st, cbLog |-> log]
      [] st = H2_STREAM_ST_CLOSED -> [state |-> st, cbLog |-> log]
      [] st = H2_STREAM_ST_CLOSED_OUTPUT ->
            set_state(st, H2_STREAM_ST_CLOSED, cb, log)
      [] OTHER -> set_state(st, H2_STREAM_ST_CLOSED_INPUT, cb, log)

\* h2_stream_close_input appending the marker whatever the push returned
h2_stream_close_input_eos(st, w, q, cb, log, qok1, qok2) ==
    LET s == close_input_switch(st, cb, log)
        p == IF w.alloc
             THEN h2_stream_push(w, q, qok1, "trap")
             ELSE [work |-> w, q |-> q, status |-> APR_SUCCESS,
                   fault |-> FALSE]
        e == h2_bucket_queue_append_eos(p.q, StreamId, qok2)
    IN [state |-> s.state, cbLog |-> s.cbLog, work |-> p.work, q |-> e.q,
        status |-> IF p.status = APR_SUCCESS THEN e.status ELSE p.status]

h2_stream_close_input(st, w, q, cb, log, qok1, qok2) ==
    LET s == close_input_switch(st, cb, log)
        p == IF w.alloc
             THEN h2_stream_push(w, q, qok1, "trap")
             ELSE [work |-> w, q |-> q, status |-> APR_SUCCESS,
                   fault |-> FALSE]
        e == IF p.status = APR_SUCCESS
             THEN h2_bucket_queue_append_eos(p.q, StreamId, qok2)
             ELSE [q |-> p.q, status |-> p.status]
    IN [state |-> s.state, cbLog |-> s.cbLog, work |-> p.work, q |-> e.q,
        status |-> e.status]

\* name[0] == ':'
IsPseudo(name) == Len(name) > 0 /\ Head(name) = ":"

IsRegular(name) == Len(name) > 0 /\ Head(name) # ":"

\* lines 180-222 with the check of the value's length left out
add_pseudo_header_novlen(s, name, value) ==
    IF s.work.alloc THEN [s |-> s, status |-> APR_EGENERAL]
    ELSE IF H2_HEADER_METHOD_LEN = Len(name) /\ H2_HEADER_METHOD = name
    THEN [s |-> [s EXCEPT !.method = value], status |-> APR_SUCCESS]
    ELSE IF H2_HEADER_SCHEME_LEN = Len(name) /\ H2_HEADER_SCHEME = name
    THEN [s |-> [s EXCEPT !.scheme = value], status |-> APR_SUCCESS]
    ELSE IF H2_HEADER_PATH_LEN = Len(name) /\ H2_HEADER_PATH = name
    THEN [s |-> [s EXCEPT !.path = value], status |-> APR_SUCCESS]
    ELSE IF H2_HEADER_AUTH_LEN = Len(name) /\ H2_HEADER_AUTH = name
    THEN [s |-> [s EXCEPT !.authority = value], status |-> APR_SUCCESS]
    ELSE [s |-> s, status |-> APR_SUCCESS]

\* lines 180-222 storing a value only into a field that is still NULL
add_pseudo_header_once(s, name, value) ==
    LET keep(old) == IF old = NULLSTR THEN value ELSE old IN
    IF s.work.alloc THEN [s |-> s, status |-> APR_EGENERAL]
    ELSE IF Len(value) <= 0 THEN [s |-> s, status |-> APR_EGENERAL]
    ELSE IF H2_HEADER_METHOD_LEN = Len(name) /\ H2_HEADER_METHOD = name
    THEN [s |-> [s EXCEPT !.method = keep(@)], status |-> APR_SUCCESS]
    ELSE IF H2_HEADER_SCHEME_LEN = Len(name) /\ H2_HEADER_SCHEME = name
    THEN [s |-> [s EXCEPT !.scheme = keep(@)], status |-> APR_SUCCESS]
    ELSE IF H2_HEADER_PATH_LEN = Len(name) /\ H2_HEADER_PATH = name
    THEN [s |-> [s EXCEPT !.path = keep(@)], status |-> APR_SUCCESS]
    ELSE IF H2_HEADER_AUTH_LEN = Len(name) /\ H2_HEADER_AUTH = name
    THEN [s |-> [s EXCEPT !.authority = keep(@)], status |-> APR_SUCCESS]
    ELSE [s |-> s, status |-> APR_SUCCESS]

\* lines 180-222: a header whose name starts with ':', name not being empty
add_pseudo_header(s, name, value) ==
    IF s.work.alloc THEN [s |-> s, status |-> APR_EGENERAL]
    ELSE IF Len(value) <= 0 THEN [s |-> s, status |-> APR_EGENERAL]
    ELSE IF H2_HEADER_METHOD_LEN = Len(name) /\ H2_HEADER_METHOD = name
    THEN [s |-> [s EXCEPT !.method = value], status |-> APR_SUCCESS]
    ELSE IF H2_HEADER_SCHEME_LEN = Len(name) /\ H2_HEADER_SCHEME = name
    THEN [s |-> [s EXCEPT !.scheme = value], status |-> APR_SUCCESS]
    ELSE IF H2_HEADER_PATH_LEN = Len(name) /\ H2_HEADER_PATH = name
    THEN [s |-> [s EXCEPT !.path = value], status |-> APR_SUCCESS]
    ELSE IF H2_HEADER_AUTH_LEN = Len(name) /\ H2_HEADER_AUTH = name
    THEN [s |-> [s EXCEPT !.authority = value], status |-> APR_SUCCESS]
    ELSE [s |-> s, status |-> APR_SUCCESS]

\* s holds the stream's method, scheme, path, authority and work
h2_stream_add_header(s, q, name, value, allocOk, qok, ub) ==
    LET done(t, st) ==
            [method |-> t.method, scheme |-> t.scheme, path |-> t.path,
             authority |-> t.authority, work |-> t.work, q |-> q,
             status |-> st, fault |-> FALSE]
    IN
    IF Len(name) <= 0 THEN done(s, APR_SUCCESS)
    ELSE IF Head(name) = ":" THEN
        LET r == add_pseudo_header(s, name, value) IN done(r.s, r.status)
    ELSE
        \* lines 225-254: the first bucket of the request
        LET first ==
                IF ~s.work.alloc
                THEN IF s.method = NULLSTR
                     THEN [work |-> s.work, status |-> APR_EGENERAL,
                           ret |-> TRUE]
                     ELSE IF s.path = NULLSTR
                     THEN [work |-> s.work, status |-> APR_EGENERAL,
                           ret |-> TRUE]
                     ELSE
                     LET c == h2_stream_check_work(s.work, allocOk) IN
                     IF c.status # APR_SUCCESS
                     THEN [work |-> c.work, status |-> c.status,
                           ret |-> TRUE]
                     ELSE
                     LET a == h2_frame_req_add_start(c.work, s.method,
                                                     s.path)
                     IN IF a.status = APR_SUCCESS /\ s.authority # NULLSTR
                        THEN LET h == h2_frame_req_add_header(
                                          a.work, HostName, s.authority)
                             IN [work |-> h.work, status |-> h.status,
                                 ret |-> FALSE]
                        ELSE [work |-> a.work, status |-> a.status,
                              ret |-> FALSE]
                ELSE [work |-> s.work, status |-> APR_SUCCESS, ret |-> FALSE]
        IN
        IF first.ret \/ first.status # APR_SUCCESS
        THEN done([s EXCEPT !.work = first.work], first.status)
        ELSE
        \* lines 256-269: the header line, with one push and retry
        LET h1 == h2_frame_req_add_header(first.work, name, value) IN
        IF h1.status = APR_ENAMETOOLONG /\ Len(h1.work.data) > 0
        THEN LET p == h2_stream_push(h1.work, q, qok, ub) IN
             IF p.status # APR_SUCCESS
             THEN [done([s EXCEPT !.work = p.work], p.status)
                     EXCEPT !.q = p.q]
             ELSE IF ~p.work.alloc
             THEN \* the retry writes through stream->work, which is NULL
                  IF ub = "trap"
                  THEN [done([s EXCEPT !.work = p.work], APR_SUCCESS)
                          EXCEPT !.q = p.q, !.fault = TRUE]
                  ELSE [done([s EXCEPT !.work = p.work], APR_EINVAL)
                          EXCEPT !.q = p.q]
             ELSE LET h2 == h2_frame_req_add_header(p.work, name, value)
                  IN [done([s EXCEPT !.work = h2.work], h2.status)
                        EXCEPT !.q = p.q]
        ELSE done([s EXCEPT !.work = h1.work], h1.status)

\* the output side's mirror image of the switch of h2_stream_close_input
close_output_switch(st, cb, log) ==
    CASE st = H2_STREAM_ST_CLOSED_OUTPUT -> [state |-> st, cbLog |-> log]
      [] st = H2_STREAM_ST_CLOSED -> [state |-> st, cbLog |-> log]
      [] st = H2_STREAM_ST_CLOSED_INPUT ->
            set_state(st, H2_STREAM_ST_CLOSED, cb, log)
      [] OTHER -> set_state(st, H2_STREAM_ST_CLOSED_OUTPUT, cb, log)

\* a pass that pushes the work bucket after every append
add_data_pass_eager(w, q, rest, qok, ubAppend, ubPush) ==
    IF ~w.alloc /\ ubAppend = "trap"
    THEN [work |-> w, q |-> q, len |-> rest, written |-> 0,
          status |-> APR_SUCCESS, ret |-> FALSE, fault |-> TRUE]
    ELSE
    LET written == IF w.alloc THEN AppendCount(w, rest) ELSE 0
        w1 == IF w.alloc THEN h2_bucket_append(w, rest) ELSE w
        p == h2_stream_push(w1, q, qok, ubPush)
    IN [work |-> p.work, q |-> p.q,
        len |-> SubSeq(rest, written + 1, Len(rest)),
        written |-> written, status |-> p.status,
        ret |-> (~p.fault /\ (p.status # APR_SUCCESS
                                \/ written = Len(rest))),
        fault |-> p.fault]

\* lines 284-295: one pass through the body of the loop of
\* h2_stream_add_data, entered with rest (len > 0) still to append
add_data_pass(w, q, rest, qok, ubAppend, ubPush) ==
    IF ~w.alloc /\ ubAppend = "trap"
    THEN [work |-> w, q |-> q, len |-> rest, written |-> 0,
          status |-> APR_SUCCESS, ret |-> FALSE, fault |-> TRUE]
    ELSE
    LET written == IF w.alloc THEN AppendCount(w, rest) ELSE 0
        w1 == IF w.alloc THEN h2_bucket_append(w, rest) ELSE w
    IN IF written < Len(rest)
       THEN LET p == h2_stream_push(w1, q, qok, ubPush) IN
            [work |-> p.work, q |-> p.q,
             len |-> SubSeq(rest, written + 1, Len(rest)),
             written |-> written, status |-> p.status,
             ret |-> (~p.fault /\ p.status # APR_SUCCESS),
             fault |-> p.fault]
       ELSE [work |-> w1, q |-> q, len |-> <<>>, written |-> written,
             status |-> APR_SUCCESS, ret |-> TRUE, fault |-> FALSE]

(* ------------------------------------------------------------------ *)
(* Actions: one per call on the stream                                *)
(* ------------------------------------------------------------------ *)

\* what every returning call records
Returned(op, arg, status, f) ==
    /\ calls' = calls + 1
    /\ lastOp' = op
    /\ lastArg' = arg
    /\ lastStatus' = IF f THEN "crashed" ELSE status
    /\ fault' = f
    /\ qfail' = (qfail \/ (~f /\ status = QueueFailure))

SetStateChangeCb ==
    /\ CanCall
    /\ state_change_cb' = TRUE
    /\ Returned("set_state_change_cb", <<>>, APR_SUCCESS, FALSE)
    /\ UNCHANGED <<state, method, scheme, path, authority, eoh, aborted,
                   work, data_in, pc, len, iter, cbLog, closeCalls,
                   ciChanges, ehCalls, adCalls, dataIn, hdrsIn,
                   replaced>>

\* h2_stream_abort flipping the flag
Abort_toggle ==
    /\ CanCall
    /\ aborted' = ~aborted
    /\ Returned("abort", <<>>, APR_SUCCESS, FALSE)
    /\ UNCHANGED <<state, method, scheme, path, authority, eoh, work,
                   state_change_cb, data_in, pc, len, iter, cbLog,
                   closeCalls, ciChanges, ehCalls, adCalls, dataIn, hdrsIn,
                   replaced>>

Abort ==
    /\ CanCall
    /\ aborted' = (IF ~aborted THEN TRUE ELSE aborted)
    /\ Returned("abort", <<>>, APR_SUCCESS, FALSE)
    /\ UNCHANGED <<state, method, scheme, path, authority, eoh, work,
                   state_change_cb, data_in, pc, len, iter, cbLog,
                   closeCalls, ciChanges, ehCalls, adCalls, dataIn, hdrsIn,
                   replaced>>

EndHeaders ==
    /\ CanCall
    /\ \E r \in { h2_stream_end_headers(work, data_in, eoh, allocOk, qok1,
                                        qok2, ubCat, ubPush) :
                     allocOk \in BOOLEAN, qok1 \in BOOLEAN, qok2 \in BOOLEAN,
                     ubCat \in NullOutcomes, ubPush \in NullOutcomes } :
         /\ work' = r.work
         /\ data_in' = r.q
         /\ eoh' = r.eoh
         /\ Returned("end_headers", <<>>, r.status, r.fault)
    /\ ehCalls' = ehCalls + 1
    /\ UNCHANGED <<state, method, scheme, path, authority, aborted,
                   state_change_cb, pc, len, iter, cbLog, closeCalls,
                   ciChanges, adCalls, dataIn, hdrsIn,
                   replaced>>

CloseInput ==
    /\ CanCall
    /\ \E r \in { h2_stream_close_input(state, work, data_in,
                                        state_change_cb, cbLog, qok1, qok2) :
                     qok1 \in BOOLEAN, qok2 \in BOOLEAN } :
         /\ state' = r.state
         /\ cbLog' = r.cbLog
         /\ work' = r.work
         /\ data_in' = r.q
         /\ Returned("close_input", <<>>, r.status, FALSE)
    /\ closeCalls' = closeCalls + 1
    /\ ciChanges' = IF state' # state THEN ciChanges + 1 ELSE ciChanges
    /\ UNCHANGED <<method, scheme, path, authority, eoh, aborted,
                   state_change_cb, pc, len, iter, ehCalls, adCalls, dataIn,
                   hdrsIn,
                   replaced>>

CloseOutput ==
    /\ CanCall
    /\ LET r == close_output_switch(state, state_change_cb, cbLog)
       IN /\ state' = r.state
          /\ cbLog' = r.cbLog
    /\ Returned("close_output", <<>>, APR_SUCCESS, FALSE)
    /\ UNCHANGED <<method, scheme, path, authority, eoh, aborted, work,
                   state_change_cb, data_in, pc, len, iter, closeCalls,
                   ciChanges, ehCalls, adCalls, dataIn, hdrsIn,
                   replaced>>

AddHeader ==
    /\ CanCall
    /\ \E nv \in HeaderInputs :
       \E r \in { h2_stream_add_header(
                     [method |-> method, scheme |-> scheme, path |-> path,
                      authority |-> authority, work |-> work],
                     data_in, nv[1], nv[2], allocOk, qok, ub) :
                     allocOk \in BOOLEAN, qok \in BOOLEAN,
                     ub \in NullOutcomes } :
         /\ method' = r.method
         /\ scheme' = r.scheme
         /\ path' = r.path
         /\ authority' = r.authority
         /\ work' = r.work
         /\ data_in' = r.q
         /\ hdrsIn' = IF IsRegular(nv[1]) /\ ~r.fault
                         /\ r.status = APR_SUCCESS
                      THEN Append(hdrsIn, nv)
                      ELSE hdrsIn
         /\ Returned("add_header", nv, r.status, r.fault)
         /\ replaced' = (\/ replaced
                         \/ (method # NULLSTR /\ r.method # method)
                         \/ (scheme # NULLSTR /\ r.scheme # scheme)
                         \/ (path # NULLSTR /\ r.path # path)
                         \/ (authority # NULLSTR /\ r.authority # authority))
    /\ UNCHANGED <<state, eoh, aborted, state_change_cb, pc, len, iter,
                   cbLog, closeCalls, ciChanges, ehCalls, adCalls, dataIn>>

\* what a pass of the loop leaves: the call returned, died or loops on
AfterPass(r, src) ==
    /\ work' = r.work
    /\ data_in' = r.q
    /\ dataIn' = dataIn \o SubSeq(src, 1, r.written)
    /\ fault' = r.fault
    /\ qfail' = (qfail \/ (~r.fault /\ r.status = QueueFailure))
    /\ IF r.fault
       THEN lastStatus' = "crashed" /\ pc' = "add_data" /\ len' = r.len
       ELSE IF r.ret
       THEN lastStatus' = r.status /\ pc' = "idle" /\ len' = <<>>
       ELSE lastStatus' = "running" /\ pc' = "add_data" /\ len' = r.len

\* lines 275-297 up to the end of the first pass of the loop
AddData ==
    /\ CanCall
    /\ calls' = calls + 1
    /\ lastOp' = "add_data"
    /\ adCalls' = adCalls + 1
    /\ iter' = 0
    /\ UNCHANGED <<state, method, scheme, path, authority, eoh, aborted,
                   state_change_cb, cbLog, closeCalls, ciChanges, ehCalls,
                   hdrsIn,
                   replaced>>
    /\ \E d \in DataInputs :
         /\ lastArg' = <<d>>
         /\ \E c \in { h2_stream_check_work(work, allocOk) :
                          allocOk \in BOOLEAN } :
              IF c.status # APR_SUCCESS
              THEN /\ work' = c.work
                   /\ lastStatus' = c.status
                   /\ UNCHANGED <<data_in, pc, len, fault, dataIn, qfail>>
              ELSE IF Len(d) = 0
              THEN /\ work' = c.work
                   /\ lastStatus' = APR_SUCCESS
                   /\ UNCHANGED <<data_in, pc, len, fault, dataIn, qfail>>
              ELSE \E r \in { add_data_pass(c.work, data_in, d, qok,
                                            "trap", "trap") :
                                 qok \in BOOLEAN } :
                     AfterPass(r, d)

\* lines 283-297: a further pass of the loop
AddDataLoop ==
    /\ pc = "add_data"
    /\ ~fault
    /\ iter < MaxIter
    /\ UNCHANGED <<state, method, scheme, path, authority, eoh, aborted,
                   state_change_cb, calls, lastOp, lastArg, cbLog,
                   closeCalls, ciChanges, ehCalls, adCalls, hdrsIn,
                   replaced>>
    /\ \E r \in { add_data_pass(work, data_in, len, qok, ubAppend, ubPush) :
                     qok \in BOOLEAN, ubAppend \in NullOutcomes,
                     ubPush \in NullOutcomes } :
         AfterPass(r, len)
    /\ iter' = IF pc' = "idle" THEN 0 ELSE iter + 1

Next ==
    \/ SetStateChangeCb
    \/ Abort
    \/ AddHeader
    \/ EndHeaders
    \/ AddData
    \/ AddDataLoop
    \/ CloseInput
    \/ CloseOutput

Spec == Init /\ [][Next]_vars

(* ------------------------------------------------------------------ *)
(* What the queue holds for the stream                                *)
(* ------------------------------------------------------------------ *)

\* the positions of the end-of-stream markers of stream id in q
EosAt(q, id) == {i \in 1..Len(q) : q[i].eos /\ q[i].stream_id = id}

\* the positions of the buckets of stream id in q
DataAt(q, id) == {i \in 1..Len(q) : ~q[i].eos /\ q[i].stream_id = id}

\* the bytes of the buckets of stream id in q, in queue order
RECURSIVE Pushed(_, _)
Pushed(q, id) ==
    IF q = <<>> THEN <<>>
    ELSE (IF ~Head(q).eos /\ Head(q).stream_id = id
          THEN Head(q).bucket.data ELSE <<>>) \o Pushed(Tail(q), id)

RECURSIVE HeaderLines(_)
HeaderLines(hs) ==
    IF hs = <<>> THEN <<>>
    ELSE HeaderLine(Head(hs)[1], Head(hs)[2]) \o HeaderLines(Tail(hs))

EndsWith(d, suffix) ==
    /\ Len(d) >= Len(suffix)
    /\ SubSeq(d, Len(d) - Len(suffix) + 1, Len(d)) = suffix

\* this step is a call of op
CallStep(op) == calls' = calls + 1 /\ lastOp' = op

(* ------------------------------------------------------------------ *)
(* Claims                                                             *)
(* ------------------------------------------------------------------ *)

\* C1: after one or more h2_stream_close_input calls, every queue operation
\* having succeeded, the queue holds exactly one end-of-stream marker of the
\* stream and those calls changed the stream's state at most once.
C1_CloseInputIdempotent ==
    (pc = "idle" /\ ~fault /\ ~qfail /\ closeCalls >= 1)
        => /\ Cardinality(EosAt(data_in, StreamId)) = 1
           /\ ciChanges <= 1

\* C2: the queue never holds a bucket of the stream behind an end-of-stream
\* marker of the stream.
C2_NoDataAfterEos ==
    \A i \in EosAt(data_in, StreamId) :
        \A j \in DataAt(data_in, StreamId) :
            data_in[j].bucket.alloc => j < i

\* C3: :method and :path set, regular headers added (none included), then
\* the first h2_stream_end_headers returned success and nothing else wrote
\* to the stream: the queue holds the request line, the Host line iff
\* :authority was set, the header lines in the order given and the blank line.
C3_RequestFormat ==
    (/\ lastOp = "end_headers" /\ lastStatus = APR_SUCCESS
     /\ ehCalls = 1 /\ adCalls = 0 /\ closeCalls = 0
     /\ method # NULLSTR /\ path # NULLSTR)
        => Pushed(data_in, StreamId) =
              RequestLine(method, path)
              \o (IF authority # NULLSTR
                  THEN HeaderLine(HostName, authority) ELSE <<>>)
              \o HeaderLines(hdrsIn)
              \o CRLF

\* C4: once a regular header was added with success, every later add_header
\* call with a pseudo header name fails with APR_EGENERAL and leaves method,
\* scheme, path and authority as they were.
C4_PseudoAfterRegularFails ==
    [][(CallStep("add_header") /\ IsPseudo(lastArg'[1]) /\ hdrsIn # <<>>)
          => /\ lastStatus' = APR_EGENERAL
             /\ method' = method /\ scheme' = scheme
             /\ path' = path /\ authority' = authority]_vars

\* C5: an add_header call with a regular header on a stream whose :method or
\* :path is not set fails with APR_EGENERAL, writes nothing into the work
\* bucket and pushes nothing.
C5_RegularNeedsMethodAndPath ==
    [][(/\ CallStep("add_header") /\ IsRegular(lastArg'[1])
        /\ (method = NULLSTR \/ path = NULLSTR))
          => /\ lastStatus' = APR_EGENERAL
             /\ work' = work
             /\ data_in' = data_in]_vars

\* C6: whatever the fill level of the work bucket, an h2_stream_end_headers
\* call whose allocation and queue operations succeed returns success, has
\* pushed the work bucket, and the bucket it pushed last ends with the
\* 2-byte blank line.
C6_EndHeadersPushesTerminator ==
    (lastOp = "end_headers" /\ lastStatus \notin {APR_ENOMEM, QueueFailure})
        => /\ lastStatus = APR_SUCCESS
           /\ ~work.alloc
           /\ Len(data_in) > 0
           /\ LET last == data_in[Len(data_in)]
              IN /\ ~last.eos /\ last.stream_id = StreamId
                 /\ last.bucket.alloc
                 /\ EndsWith(last.bucket.data, CRLF)

\* C7: a regular header that does not fit what is left of the non-empty work
\* bucket but fits an empty one: the work bucket is pushed, the header line
\* is the content of the new work bucket, and add_header returns success
\* (the queue accepting the push).
C7_HeaderRollover ==
    [][(/\ CallStep("add_header") /\ IsRegular(lastArg'[1])
        /\ work.alloc /\ Len(work.data) > 0
        /\ ~h2_bucket_has_free(work,
                               Len(HeaderLine(lastArg'[1], lastArg'[2])))
        /\ Len(HeaderLine(lastArg'[1], lastArg'[2])) <= SegCap
        /\ lastStatus' # QueueFailure)
          => /\ lastStatus' = APR_SUCCESS
             /\ data_in' = Append(data_in, DataItem(work, StreamId))
             /\ work'.alloc
             /\ work'.data = HeaderLine(lastArg'[1], lastArg'[2])]_vars

\* only h2_stream_add_data and h2_stream_close_input were called, and every
\* queue operation succeeded
OnlyDataCalls == calls = adCalls + closeCalls /\ ~qfail

\* C8: h2_stream_add_data calls followed by h2_stream_close_input, every
\* queue operation succeeding: each add_data call completes, what the queue
\* holds are buckets whose bytes are, in order, the bytes given to add_data,
\* and every bucket but the last is filled to capacity.
C8_DataRoundTrip ==
    /\ (OnlyDataCalls /\ closeCalls = 0)
          => /\ ~fault
             /\ lastStatus \in {APR_SUCCESS, APR_ENOMEM, "running"}
             /\ \A i \in DataAt(data_in, StreamId) : data_in[i].bucket.alloc
    /\ (/\ OnlyDataCalls /\ closeCalls = 1
        /\ lastOp = "close_input" /\ lastStatus = APR_SUCCESS)
          => /\ Pushed(data_in, StreamId) = dataIn
             /\ \A i \in DataAt(data_in, StreamId) :
                   (\E j \in DataAt(data_in, StreamId) : j > i)
                      => Len(data_in[i].bucket.data) = SegCap

\* C9: stream->state changes only as the h2_stream_close_input table allows
\* (IDLE -> CLOSED_INPUT, CLOSED_OUTPUT -> CLOSED, none from CLOSED_INPUT or
\* CLOSED) or by the output side's close, never returns to IDLE, never
\* leaves CLOSED, and no other call changes it.
C9_StateMonotonic ==
    [][/\ CallStep("close_input")
          => state' = CASE state = H2_STREAM_ST_IDLE ->
                               H2_STREAM_ST_CLOSED_INPUT
                        [] state = H2_STREAM_ST_CLOSED_OUTPUT ->
                               H2_STREAM_ST_CLOSED
                        [] OTHER -> state
       /\ state' # state
          => (CallStep("close_input") \/ CallStep("close_output"))
       /\ state # H2_STREAM_ST_IDLE => state' # H2_STREAM_ST_IDLE
       /\ state = H2_STREAM_ST_CLOSED => state' = H2_STREAM_ST_CLOSED]_vars

\* a h2_stream_close_input call found the stream CLOSED, which the output
\* side and an earlier h2_stream_close_input had made it, and left it so
C9_Witness ==
    /\ lastOp = "close_input" /\ closeCalls >= 2
    /\ state = H2_STREAM_ST_CLOSED /\ ciChanges = 1

\* C10: with an observer registered, every step that changes stream->state
\* invokes it exactly once, with the old state, and a step that leaves the
\* state as it is does not invoke it.
C10_ObserverOncePerChange ==
    [][IF state' # state /\ state_change_cb
       THEN cbLog' = Append(cbLog, <<state, state'>>)
       ELSE cbLog' = cbLog]_vars

\* a second h2_stream_close_input call on a stream with an observer: the
\* observer has been invoked for the first call's change alone
C10_Witness ==
    /\ state_change_cb /\ lastOp = "close_input" /\ closeCalls >= 2
    /\ state = H2_STREAM_ST_CLOSED_INPUT
    /\ cbLog = <<<<H2_STREAM_ST_IDLE, H2_STREAM_ST_CLOSED_INPUT>>>>

\* C11: the work bucket, when there is one, is none of the buckets of the
\* queue; a step that hands a bucket to the queue leaves the stream without
\* work bucket; a step that finds a work bucket and adds nothing to the queue
\* leaves that bucket the work bucket, and an h2_stream_close_input call
\* whose push fails leaves it unchanged.
C11_WorkNotQueued ==
    [][/\ work'.alloc
          => \A i \in DataAt(data_in', StreamId) :
                 data_in'[i].bucket.addr # work'.addr
       /\ (\E i \in DataAt(data_in', StreamId) :
               i > Len(data_in) /\ data_in'[i].bucket.alloc)
          => ~work'.alloc
       /\ (work.alloc /\ work'.alloc)
          => (work'.addr = work.addr /\ data_in' = data_in)
       /\ (work.alloc /\ data_in' = data_in)
          => (work'.alloc /\ work'.addr = work.addr)
       /\ (CallStep("close_input") /\ work.alloc /\ data_in' = data_in)
          => work' = work]_vars

\* a push failed on a stream that had pushed a bucket before: the stream
\* still has its work bucket, the queue has the earlier one
C11_Witness ==
    /\ lastStatus = QueueFailure /\ pc = "idle" /\ work.alloc
    /\ Len(work.data) > 0
    /\ \E i \in DataAt(data_in, StreamId) : data_in[i].bucket.alloc

C13_EmptyPseudoValueFails ==
    [][(/\ CallStep("add_header") /\ IsPseudo(lastArg'[1])
        /\ Len(lastArg'[2]) = 0 /\ ~work.alloc)
          => /\ lastStatus' = APR_EGENERAL
             /\ UNCHANGED <<method, scheme, path, authority, work,
                            data_in>>]_vars

\* :path with an empty value was refused on a stream that has a path and no
\* work bucket
C13_Witness ==
    /\ lastOp = "add_header" /\ lastArg = <<H2_HEADER_PATH, <<>>>>
    /\ lastStatus = APR_EGENERAL
    /\ ~work.alloc /\ data_in = <<>> /\ path # NULLSTR

\* C14: on a stream that had h2_stream_add_data calls only, as long as the
\* bytes given do not exceed the capacity of a bucket the queue stays empty;
\* the h2_stream_close_input call that follows leaves in the queue exactly
\* one bucket, holding all the bytes in call order, and directly after it
\* the end-of-stream marker of the stream.
C14_SmallDataOneBucket ==
    /\ (calls = adCalls /\ ~qfail /\ Len(dataIn) + Len(len) <= SegCap)
          => (data_in = <<>> /\ ~fault)
    /\ (/\ lastOp = "close_input" /\ closeCalls = 1 /\ calls = adCalls + 1
        /\ ~qfail /\ Len(dataIn) > 0 /\ Len(dataIn) <= SegCap)
          => /\ lastStatus = APR_SUCCESS
             /\ ~work.alloc
             /\ Len(data_in) = 2
             /\ data_in[1] = DataItem(data_in[1].bucket, StreamId)
             /\ data_in[1].bucket.alloc
             /\ data_in[1].bucket.data = dataIn
             /\ data_in[2] = EosItem(StreamId)

\* two h2_stream_add_data calls and h2_stream_close_input: one bucket with
\* the bytes of both calls, then the marker
C14_Witness ==
    /\ lastOp = "close_input" /\ calls = adCalls + 1 /\ adCalls >= 2
    /\ Len(dataIn) >= 2 /\ Len(dataIn) <= SegCap
    /\ Len(data_in) = 2
    /\ data_in[1].bucket.data = dataIn
    /\ data_in[2] = EosItem(StreamId)

\* C15: an h2_stream_abort call leaves the stream aborted and leaves state,
\* the work bucket, the pseudo-header fields, eoh and the queue as they were
\* (a call on an aborted stream so changes nothing), and no step takes
\* aborted from true to false.
C15_AbortOnlySetsFlag ==
    [][/\ CallStep("abort")
          => /\ aborted'
             /\ UNCHANGED <<state, work, method, scheme, path, authority,
                            eoh, data_in>>
       /\ aborted => aborted'
       /\ aborted' # aborted => CallStep("abort")]_vars

\* h2_stream_abort returned on a stream that has a work bucket with bytes
\* in it and a bucket in the queue
C15_Witness ==
    /\ lastOp = "abort" /\ aborted
    /\ work.alloc /\ Len(work.data) > 0
    /\ data_in # <<>>

\* C16: an h2_stream_close_input call whose push of the work bucket fails
\* returns the queue's error, appends no end-of-stream marker and leaves the
\* work bucket with the stream; a marker is appended only by a call whose
\* push succeeded or that found no work bucket, and only h2_stream_close_input
\* appends markers.
C16_NoEosAfterFailedPush ==
    [][/\ CallStep("close_input")
          => \/ /\ lastStatus' = QueueFailure
                /\ data_in' = data_in
                /\ work' = work
             \/ /\ lastStatus' = QueueFailure
                /\ work.alloc /\ ~work'.alloc
                /\ data_in' = Append(data_in, DataItem(work, StreamId))
             \/ /\ lastStatus' = APR_SUCCESS
                /\ ~work'.alloc
                /\ data_in' =
                      Append(IF work.alloc
                             THEN Append(data_in, DataItem(work, StreamId))
                             ELSE data_in,
                             EosItem(StreamId))
       /\ EosAt(data_in', StreamId) # EosAt(data_in, StreamId)
          => (CallStep("close_input") /\ ~work'.alloc)]_vars

\* the push of h2_stream_close_input failed: the stream has its work bucket
\* and the queue has no marker
C16_Witness ==
    /\ lastOp = "close_input" /\ lastStatus = QueueFailure
    /\ work.alloc /\ Len(work.data) > 0
    /\ EosAt(data_in, StreamId) = {}

\* C17: an add_header call with a regular header whose line is longer than
\* an empty bucket, on a stream that may take regular headers and with
\* allocation and queue succeeding, returns APR_ENAMETOOLONG, pushes at most
\* one bucket, and the line of that header is not in what the stream wrote.
C17_TooLargeHeader ==
    [][(/\ CallStep("add_header") /\ IsRegular(lastArg'[1])
        /\ Len(HeaderLine(lastArg'[1], lastArg'[2])) > SegCap
        /\ lastStatus' \notin {APR_EGENERAL, APR_ENOMEM, QueueFailure})
          => /\ lastStatus' = APR_ENAMETOOLONG
             /\ Len(data_in') <= Len(data_in) + 1
             /\ ~EndsWith(Pushed(data_in', StreamId) \o work'.data,
                          HeaderLine(lastArg'[1], lastArg'[2]))]_vars

\* C18: while the queue accepts every push, no step of an
\* h2_stream_add_data call kills the process, every pass of its loop that
\* does not return leaves fewer bytes to append than it found (so the call
\* returns after finitely many passes), a call that got its work bucket
\* returns APR_SUCCESS, and every bucket it pushes is filled to capacity.
C18_AddDataTerminates ==
    [][(/\ lastOp' = "add_data" /\ ~qfail'
        /\ (CallStep("add_data") \/ pc = "add_data"))
          => /\ ~fault'
             /\ (pc = "add_data" /\ pc' = "add_data")
                   => Len(len') < Len(len)
             /\ (pc' = "idle" /\ lastStatus' # APR_ENOMEM)
                   => lastStatus' = APR_SUCCESS
             /\ \A i \in DataAt(data_in', StreamId) :
                   i > Len(data_in)
                      => /\ data_in'[i].bucket.alloc
                         /\ Len(data_in'[i].bucket.data) = SegCap]_vars

\* what the stream wrote so far: the bytes of its buckets in the queue, then
\* those of its work bucket
Output == Pushed(data_in, StreamId) \o work.data

\* the number of request lines in out: a request line is the one line with
\* a blank that does not follow a colon
StartLines(out) ==
    Cardinality({i \in 2..Len(out) : out[i] = " " /\ out[i - 1] # ":"})

\* C19: over every sequence of calls, what the stream wrote holds at most
\* one request line.
C19_RequestLineOnce == StartLines(Output) <= 1

\* C20: no call applies a bucket operation to a NULL work bucket or pushes
\* one: the process never dies on a NULL bucket, no header write is refused
\* for want of a bucket, and every bucket in the queue is an allocated one.
C20_WorkPresentWhenUsed ==
    /\ ~fault
    /\ lastStatus # APR_EINVAL
    /\ \A i \in DataAt(data_in, StreamId) : data_in[i].bucket.alloc

====
